---------------------------- MODULE Spec2Model ----------------------------
(***************************************************************************)
(* Streaming metric accumulators of torchmetrics: MeanSquaredError          *)
(* (src/torchmetrics/regression/mse.py) and TweedieDevianceScore (known     *)
(* here through tests/unittests/regression/test_tweedie_deviance.py).       *)
(*                                                                         *)
(* A tensor is a record [shape, data]: shape is the sequence of dimension   *)
(* sizes and data the row-major sequence of its integer elements.  Small    *)
(* integers and their sums of squares are exact in floating point, so the   *)
(* running sums are modelled exactly.  A quotient is kept as a reduced      *)
(* fraction [num, den, root]; 0/0 is NaN (num = 0, den = 0).                *)
(***************************************************************************)
EXTENDS Integers, Sequences, FiniteSets, TLC

\* ------------------------------------------------------------------ bounds
MaxOps == 2
MaxRows == 2
MaxCols == 2
MaxOutputs == 2

\* ------------------------------------------------------- integer helpers
RECURSIVE SumSeq(_)
SumSeq(s) == IF s = <<>> THEN 0 ELSE Head(s) + SumSeq(Tail(s))

RECURSIVE Prod(_)
Prod(s) == IF s = <<>> THEN 1 ELSE Head(s) * Prod(Tail(s))

RECURSIVE Gcd(_, _)
Gcd(a, b) == IF b = 0 THEN a ELSE Gcd(b, a % b)

Abs(x) == IF x < 0 THEN -x ELSE x

RECURSIVE SortedSeq(_)
SortedSeq(S) ==
    IF S = {} THEN <<>>
    ELSE LET m == CHOOSE x \in S : \A y \in S : x <= y
         IN  <<m>> \o SortedSeq(S \ {m})

SeqToSet(s) == {s[i] : i \in 1..Len(s)}

\* ------------------------------------------------------------- tensors
Tensor(shape, data) == [shape |-> shape, data |-> data]

Numel(shape) == Prod(shape)

Zeros(shape) == Tensor(shape, [i \in 1..Numel(shape) |-> 0])

\* Row-major stride of dimension d (1-based) and the d-th coordinate of the
\* element at flat index f (0-based).
Stride(shape, d) == Prod(SubSeq(shape, d + 1, Len(shape)))

Coord(f, shape, d) == (f \div Stride(shape, d)) % shape[d]

FlatIndex(coords, shape) ==
    SumSeq([d \in 1..Len(shape) |-> coords[d] * Stride(shape, d)])

\* Elementwise binary operation on two tensors of the same shape.
Diff(a, b) == Tensor(a.shape, [i \in 1..Len(a.data) |-> a.data[i] - b.data[i]])

Square(a) == Tensor(a.shape, [i \in 1..Len(a.data) |-> a.data[i] * a.data[i]])

\* torch.sum(x, dim=dims): dims is a set of 0-based dimensions; the kept
\* dimensions stay in their order.
KeptDims(rank, dims) == SortedSeq({d \in 1..rank : (d - 1) \notin dims})

SumOverDims(t, dims) ==
    LET rank     == Len(t.shape)
        kept     == KeptDims(rank, dims)
        outShape == [k \in 1..Len(kept) |-> t.shape[kept[k]]]
        OutIdx(f) == FlatIndex([k \in 1..Len(kept) |-> Coord(f, t.shape, kept[k])],
                               outShape)
        Slot(o)  == SumSeq([i \in 1..Len(t.data) |->
                              IF OutIdx(i - 1) = o THEN t.data[i] ELSE 0])
    IN  Tensor(outShape, [o \in 1..Numel(outShape) |-> Slot(o - 1)])

\* Broadcasting of an in-place addition `state += part`: the result keeps the
\* shape of state, so part must broadcast TO that shape (aligned from the
\* trailing dimension, each size equal or 1, no more dimensions than state).
CanBroadcastTo(partShape, stateShape) ==
    /\ Len(partShape) <= Len(stateShape)
    /\ \A k \in 1..Len(partShape) :
          LET ps == partShape[Len(partShape) + 1 - k]
              ss == stateShape[Len(stateShape) + 1 - k]
          IN  ps = ss \/ ps = 1

BroadcastAt(part, stateShape, f) ==
    LET off == Len(stateShape) - Len(part.shape)
        c   == [d \in 1..Len(part.shape) |->
                   IF part.shape[d] = 1 THEN 0
                   ELSE Coord(f, stateShape, d + off)]
    IN  part.data[FlatIndex(c, part.shape) + 1]

AddInPlace(state, part) ==
    Tensor(state.shape,
           [i \in 1..Len(state.data) |->
               state.data[i] + BroadcastAt(part, state.shape, i - 1)])

\* Rows `rows` (1-based indices along dimension 0) of tensor t, in that order.
TakeRows(t, rows) ==
    LET rowSize == Prod(Tail(t.shape))
    IN  Tensor(<<Len(rows)>> \o Tail(t.shape),
               [i \in 1..(Len(rows) * rowSize) |->
                   t.data[(rows[((i - 1) \div rowSize) + 1] - 1) * rowSize
                          + ((i - 1) % rowSize) + 1]])

\* ------------------------------------------------ numeric result values
\* n / d under floating-point rules: x/0 is +-inf, 0/0 is NaN.
Quot(n, d) ==
    IF d = 0
    THEN [num |-> IF n > 0 THEN 1 ELSE IF n < 0 THEN -1 ELSE 0, den |-> 0, root |-> FALSE]
    ELSE LET g == Gcd(Abs(n), d)
         IN  [num |-> n \div g, den |-> d \div g, root |-> FALSE]

\* torch.sqrt of a value, kept symbolically (sqrt is injective on [0, inf)).
Sqrt(q) == [q EXCEPT !.root = TRUE]

NoValue == Tensor(<<0>>, <<>>)

\* ------------------------------------------------------ Python arguments
\* A Python argument value: ty is its type, v its integer content (one
\* element for an int/bool/float, the elements for a tuple), s its text.
PyBool(b) == [ty |-> "bool",  v |-> <<IF b THEN 1 ELSE 0>>, s |-> ""]
PyInt(n) == [ty |-> "int",   v |-> <<n>>, s |-> ""]
PyFloat(n) == [ty |-> "float", v |-> <<n>>, s |-> ""]
PyStr(t) == [ty |-> "str",   v |-> <<>>,  s |-> t]
PyTuple(e) == [ty |-> "tuple", v |-> e,     s |-> ""]
\* a tuple one of whose elements is not an int (a float or a string)
PyTupleNonInt(e) == [ty |-> "tuple", v |-> e, s |-> "nonint"]
PyNone == [ty |-> "none",  v |-> <<>>,  s |-> ""]

isinstance_bool(x) == x.ty = "bool"
isinstance_int(x) == x.ty \in {"int", "bool"}
isinstance_tuple(x) == x.ty = "tuple"
all_int(x) == x.s # "nonint"

\* ------------------------------------- functional layer: mean squared error
\* Dimensions torch.sum reduces for a reduce_dims value: None is every one.
DimSet(reduce_dims, rank) ==
    IF reduce_dims.ty = "none" THEN 0..(rank - 1)
    ELSE {IF d < 0 THEN d + rank ELSE d : d \in SeqToSet(reduce_dims.v)}

DimsInRange(reduce_dims, rank) ==
    reduce_dims.ty = "none"
    \/ \A d \in SeqToSet(reduce_dims.v) : -rank <= d /\ d < rank

\* Shape check, then the squared differences summed over reduce_dims and the
\* number of elements that went into each output slot.
mean_squared_error_update(preds, target, reduce_dims) ==
    IF preds.shape # target.shape
    THEN [err |-> "ShapeMismatch", sum |-> NoValue, n_obs |-> 0]
    ELSE IF ~DimsInRange(reduce_dims, Len(preds.shape))
    THEN [err |-> "IndexError", sum |-> NoValue, n_obs |-> 0]
    ELSE LET s == SumOverDims(Square(Diff(preds, target)),
                              DimSet(reduce_dims, Len(preds.shape)))
         IN  [err |-> "ok", sum |-> s,
              n_obs |-> IF Numel(s.shape) = 0 THEN 0
                        ELSE Numel(preds.shape) \div Numel(s.shape)]

mean_squared_error_compute(sum_squared_error, total, squared) ==
    Tensor(sum_squared_error.shape,
           [i \in 1..Len(sum_squared_error.data) |->
               IF squared THEN Quot(sum_squared_error.data[i], total.data[1])
               ELSE Sqrt(Quot(sum_squared_error.data[i], total.data[1]))])

\* ------------------------------------------ functional layer: Tweedie deviance
\* Deviance terms are kept in fixed point, in millionths.  The power is kept
\* doubled (power2 = 2 * power) so that 0.5 is the integer 1.
LnMicro(n) ==
    CASE n = 1 -> 0
      [] n = 2 -> 693147
      [] n = 3 -> 1098612
      [] n = 4 -> 1386294
      [] n = 5 -> 1609438
      [] n = 6 -> 1791759
      [] n = 7 -> 1945910
      [] n = 8 -> 2079442

\* torch.xlogy(t, t / p): zero when t is zero
XLogYMicro(t, p) == IF t = 0 THEN 0 ELSE t * (LnMicro(t) - LnMicro(p))

DevianceTermMicro(p, t, power2) ==
    CASE power2 = 0 -> (t - p) * (t - p) * 1000000
      [] power2 = 2 -> 2 * (XLogYMicro(t, p) + (p - t) * 1000000)
      [] power2 = 4 -> 2 * ((LnMicro(p) - LnMicro(t)) + ((t * 1000000) \div p) - 1000000)

DomainOK(preds, targets, power2) ==
    CASE power2 = 2 -> /\ \A i \in 1..Len(preds.data) : preds.data[i] > 0
                       /\ \A i \in 1..Len(targets.data) : targets.data[i] >= 0
      [] power2 = 4 -> /\ \A i \in 1..Len(preds.data) : preds.data[i] > 0
                       /\ \A i \in 1..Len(targets.data) : targets.data[i] > 0
      [] OTHER -> TRUE

tweedie_deviance_score_update(preds, targets, power2) ==
    IF preds.shape # targets.shape
    THEN [err |-> "ShapeMismatch", sum |-> NoValue, n_obs |-> 0]
    ELSE IF ~DomainOK(preds, targets, power2)
    THEN [err |-> "DomainViolation", sum |-> NoValue, n_obs |-> 0]
    ELSE [err |-> "ok",
          sum |-> Tensor(<<>>, <<SumSeq([i \in 1..Len(preds.data) |->
                     DevianceTermMicro(preds.data[i], targets.data[i], power2)])>>),
          n_obs |-> Numel(preds.shape)]

tweedie_deviance_score_compute(sum_deviance_score, num_observations) ==
    Tensor(<<>>, <<Quot(sum_deviance_score.data[1], num_observations.data[1] * 1000000)>>)

\* ---------------------------------------------------------------- state
VARIABLES
    cfg,    \* configuration fixed at construction (kind "none" before it)
    data,   \* the dataset the batches are cut from: [preds, target]
    st,     \* st[i]: the registered state fields of instance i, by name
    seen,   \* seen[i]: the batches (row selections of data) folded into st[i]
            \* since its last reset, in order
    last    \* the last call: operation, instance, outcome, returned value

vars == <<cfg, data, st, seen, last>>

Inst == {1, 2}

Scalar(n) == Tensor(<<>>, <<n>>)

NoCfg == [kind |-> "none", squared |-> TRUE, output_size |-> PyNone,
          reduce_dimensions |-> PyNone, power2 |-> 0]

\* preds, target: the arguments of an update or a one-shot call.  a, b: what
\* the instance and its peer had seen before a merge or a reset; for a
\* construction, a holds the arguments.
Call(op, i, outcome, value) ==
    [op |-> op, inst |-> i, outcome |-> outcome, value |-> value,
     preds |-> NoValue, target |-> NoValue, a |-> <<>>, b |-> <<>>]

\* ------------------------------------------------- MeanSquaredError class
\* torch.zeros(num_outputs): an int gives a vector, a tuple that shape.
ZerosOf(num_outputs) ==
    IF isinstance_tuple(num_outputs) THEN Zeros(num_outputs.v)
    ELSE Zeros(<<num_outputs.v[1]>>)

\* num_outputs = 0 let through (>= for >)
MSE_validate_nonneg(squared, num_outputs, reduce_dims) ==
    IF ~isinstance_bool(squared) THEN "InvalidArgument"
    ELSE IF /\ ~(isinstance_int(num_outputs) /\ num_outputs.v[1] >= 0)
            /\ ~(/\ isinstance_tuple(num_outputs)
                 /\ all_int(num_outputs)
                 /\ \A k \in 1..Len(num_outputs.v) : num_outputs.v[k] > 0)
    THEN "InvalidArgument"
    ELSE IF /\ ~isinstance_int(reduce_dims)
            /\ ~(isinstance_tuple(reduce_dims) /\ all_int(reduce_dims))
            /\ ~(reduce_dims = PyStr("all"))
    THEN "InvalidArgument"
    ELSE "ok"

\* The checks of __init__, in the order of the code; "ok" when all pass.
MSE_validate(squared, num_outputs, reduce_dims) ==
    IF ~isinstance_bool(squared) THEN "InvalidArgument"
    ELSE IF /\ ~(isinstance_int(num_outputs) /\ num_outputs.v[1] > 0)
            /\ ~(/\ isinstance_tuple(num_outputs)
                 /\ all_int(num_outputs)
                 /\ \A k \in 1..Len(num_outputs.v) : num_outputs.v[k] > 0)
    THEN "InvalidArgument"
    ELSE IF /\ ~isinstance_int(reduce_dims)
            /\ ~(isinstance_tuple(reduce_dims) /\ all_int(reduce_dims))
            /\ ~(reduce_dims = PyStr("all"))
    THEN "InvalidArgument"
    ELSE "ok"

MSE_config(squared, num_outputs, reduce_dims) ==
    [kind |-> "mse", squared |-> (squared.v[1] = 1), output_size |-> num_outputs,
     reduce_dimensions |-> IF reduce_dims = PyStr("all") THEN PyNone ELSE reduce_dims,
     power2 |-> 0]

\* the sum registered as torch.zeros(1), whatever num_outputs is
MSE_defaults_single(c) ==
    [sum_squared_error |-> Zeros(<<1>>), total |-> Scalar(0)]

\* The defaults given to add_state.
MSE_defaults(c) ==
    [sum_squared_error |-> ZerosOf(c.output_size), total |-> Scalar(0)]

\* the running sum assigned instead of accumulated (= for +=)
MSE_update_overwrite(c, s, preds, target) ==
    LET r == mean_squared_error_update(preds, target, c.reduce_dimensions)
    IN  IF r.err # "ok" THEN [err |-> r.err, state |-> s]
        ELSE IF ~CanBroadcastTo(r.sum.shape, s.sum_squared_error.shape)
        THEN [err |-> "BroadcastError", state |-> s]
        ELSE [err |-> "ok",
              state |-> [sum_squared_error |-> AddInPlace(Zeros(s.sum_squared_error.shape),
                                                          r.sum),
                         total |-> Scalar(s.total.data[1] + r.n_obs)]]

\* the running count assigned instead of accumulated
MSE_update_count_once(c, s, preds, target) ==
    LET r == mean_squared_error_update(preds, target, c.reduce_dimensions)
    IN  IF r.err # "ok" THEN [err |-> r.err, state |-> s]
        ELSE IF ~CanBroadcastTo(r.sum.shape, s.sum_squared_error.shape)
        THEN [err |-> "BroadcastError", state |-> s]
        ELSE [err |-> "ok",
              state |-> [sum_squared_error |-> AddInPlace(s.sum_squared_error, r.sum),
                         total |-> Scalar(r.n_obs)]]

\* the count taken from preds and added before the functional update runs
MSE_update_count_first(c, s, preds, target) ==
    LET counted == [s EXCEPT !.total = Scalar(s.total.data[1] + Numel(preds.shape))]
        r == mean_squared_error_update(preds, target, c.reduce_dimensions)
    IN  IF r.err # "ok" THEN [err |-> r.err, state |-> counted]
        ELSE IF ~CanBroadcastTo(r.sum.shape, s.sum_squared_error.shape)
        THEN [err |-> "BroadcastError", state |-> counted]
        ELSE [err |-> "ok",
              state |-> [sum_squared_error |-> AddInPlace(s.sum_squared_error, r.sum),
                         total |-> counted.total]]

MSE_update(c, s, preds, target) ==
    LET r == mean_squared_error_update(preds, target, c.reduce_dimensions)
    IN  IF r.err # "ok" THEN [err |-> r.err, state |-> s]
        ELSE IF ~CanBroadcastTo(r.sum.shape, s.sum_squared_error.shape)
        THEN [err |-> "BroadcastError", state |-> s]
        ELSE [err |-> "ok",
              state |-> [sum_squared_error |-> AddInPlace(s.sum_squared_error, r.sum),
                         total |-> Scalar(s.total.data[1] + r.n_obs)]]

MSE_compute(c, s) ==
    mean_squared_error_compute(s.sum_squared_error, s.total, c.squared)

\* --------------------------------------------- TweedieDevianceScore class
Tweedie_validate(power2) == IF power2 = 1 THEN "InvalidArgument" ELSE "ok"

Tweedie_config(power2) ==
    [kind |-> "tweedie", squared |-> TRUE, output_size |-> PyNone,
     reduce_dimensions |-> PyNone, power2 |-> power2]

Tweedie_defaults(c) ==
    [sum_deviance_score |-> Scalar(0), num_observations |-> Scalar(0)]

\* the count added before the functional update has validated the batch
Tweedie_update_count_first(c, s, preds, targets) ==
    LET counted == [s EXCEPT !.num_observations =
                        Scalar(s.num_observations.data[1] + Numel(preds.shape))]
        r == tweedie_deviance_score_update(preds, targets, c.power2)
    IN  IF r.err # "ok" THEN [err |-> r.err, state |-> counted]
        ELSE [err |-> "ok",
              state |-> [sum_deviance_score |-> AddInPlace(s.sum_deviance_score, r.sum),
                         num_observations |-> counted.num_observations]]

Tweedie_update(c, s, preds, targets) ==
    LET r == tweedie_deviance_score_update(preds, targets, c.power2)
    IN  IF r.err # "ok" THEN [err |-> r.err, state |-> s]
        ELSE [err |-> "ok",
              state |-> [sum_deviance_score |-> AddInPlace(s.sum_deviance_score, r.sum),
                         num_observations |->
                             Scalar(s.num_observations.data[1] + r.n_obs)]]

Tweedie_compute(c, s) ==
    tweedie_deviance_score_compute(s.sum_deviance_score, s.num_observations)

\* ------------------------------------------- the shared accumulator contract
Defaults(c) == IF c.kind = "mse" THEN MSE_defaults(c) ELSE Tweedie_defaults(c)

MetricUpdate(c, s, preds, target) ==
    IF c.kind = "mse" THEN MSE_update(c, s, preds, target)
    ELSE Tweedie_update(c, s, preds, target)

MetricCompute(c, s) ==
    IF c.kind = "mse" THEN MSE_compute(c, s) ELSE Tweedie_compute(c, s)

\* The "sum" reduction of every state field, field by field.
ReduceSum(s, o) == [f \in DOMAIN s |-> AddInPlace(s[f], o[f])]

\* ------------------------------------------------------------- datasets
\* Element (i, j) of a generated tensor is base + rowStep * i + colStep * j.
Pattern(shape, base, rowStep, colStep) ==
    Tensor(shape,
           [f \in 1..Numel(shape) |->
               base + rowStep * Coord(f - 1, shape, 1)
                    + (IF Len(shape) > 1 THEN colStep * Coord(f - 1, shape, 2) ELSE 0)])

DataShapes == {<<MaxRows>>} \cup {<<MaxRows, k>> : k \in 1..MaxCols}

MSEData ==
    {[preds |-> Pattern(sh, 1 + rs, rs, cs), target |-> Pattern(sh, rs, 0, 0)] :
        sh \in DataShapes, rs \in {0, 1}, cs \in {0, 1}}

TweedieData ==
    {[preds |-> Pattern(sh, pb, rs, 0), target |-> Pattern(sh, tb, rs, 0)] :
        sh \in {<<MaxRows>>},
        pb \in {0, 1}, rs \in {0, 1}, tb \in {-1, 0, 1}}

MSEConfigs ==
    {MSE_config(PyBool(sq), PyInt(n), rd) :
        sq \in BOOLEAN, n \in 1..MaxOutputs,
        rd \in {PyStr("all"), PyInt(1), PyTuple(<<0>>)}}

TweedieConfigs == {Tweedie_config(p2) : p2 \in {0, 2, 4}}

\* Batches: the rows of the dataset, any non-empty selection in any order.
RowSeqs ==
    {r \in UNION {[1..n -> 1..MaxRows] : n \in 1..MaxRows} :
        \A i, j \in 1..Len(r) : i # j => r[i] # r[j]}

\* The target of a call: the same rows as preds, or one row fewer.
TargetRows(rows) == {rows, SubSeq(rows, 1, Len(rows) - 1)}

RECURSIVE Flatten(_)
Flatten(batches) ==
    IF batches = <<>> THEN <<>> ELSE Head(batches) \o Flatten(Tail(batches))

Batches(i) == Len(seen[i])

TotalBatches == SumSeq([i \in 1..2 |-> Batches(i)])

\* ---------------------------------------------------------------- actions
Init ==
    /\ \/ \E c \in MSEConfigs, d \in MSEData : cfg = c /\ data = d
       \/ \E c \in TweedieConfigs, d \in TweedieData : cfg = c /\ data = d
    /\ st = [i \in Inst |-> Defaults(cfg)]
    /\ seen = [i \in Inst |-> <<>>]
    /\ last = Call("init", 1, "ok", NoValue)

\* metric.update(preds, target)
Update(i, rows, trows) ==
    /\ cfg.kind # "none"
    /\ TotalBatches < MaxOps
    /\ LET r == MetricUpdate(cfg, st[i], TakeRows(data.preds, rows),
                             TakeRows(data.target, trows))
       IN  /\ st' = [st EXCEPT ![i] = r.state]
           /\ seen' = IF r.err = "ok" THEN [seen EXCEPT ![i] = Append(@, rows)]
                      ELSE seen
           /\ last' = [Call("update", i, r.err, NoValue)
                          EXCEPT !.preds = TakeRows(data.preds, rows),
                                 !.target = TakeRows(data.target, trows)]
    /\ UNCHANGED <<cfg, data>>

\* compute() that clears the state it has read
ComputeAndClear(i) ==
    /\ cfg.kind # "none"
    /\ last' = Call("compute", i, "ok", MetricCompute(cfg, st[i]))
    /\ st' = [st EXCEPT ![i] = Defaults(cfg)]
    /\ UNCHANGED <<cfg, data, seen>>

\* metric.compute()
Compute(i) ==
    /\ cfg.kind # "none"
    /\ last' = Call("compute", i, "ok", MetricCompute(cfg, st[i]))
    /\ UNCHANGED <<cfg, data, st, seen>>

\* metric(preds, target): update, then compute
Forward(i, rows, trows) ==
    /\ cfg.kind # "none"
    /\ TotalBatches < MaxOps
    /\ LET r == MetricUpdate(cfg, st[i], TakeRows(data.preds, rows),
                             TakeRows(data.target, trows))
       IN  /\ st' = [st EXCEPT ![i] = r.state]
           /\ seen' = IF r.err = "ok" THEN [seen EXCEPT ![i] = Append(@, rows)]
                      ELSE seen
           /\ last' = [Call("forward", i, r.err,
                            IF r.err = "ok" THEN MetricCompute(cfg, r.state)
                            ELSE NoValue)
                          EXCEPT !.preds = TakeRows(data.preds, rows),
                                 !.target = TakeRows(data.target, trows)]
    /\ UNCHANGED <<cfg, data>>

\* metric.reset()
Reset(i) ==
    /\ cfg.kind # "none"
    /\ st' = [st EXCEPT ![i] = Defaults(cfg)]
    /\ seen' = [seen EXCEPT ![i] = <<>>]
    /\ last' = [Call("reset", i, "ok", NoValue) EXCEPT !.a = seen[i]]
    /\ UNCHANGED <<cfg, data>>

\* instance i takes in the state of its peer j
Merge(i, j) ==
    /\ cfg.kind # "none"
    /\ i # j
    /\ Batches(i) + Batches(j) <= MaxOps
    /\ st' = [st EXCEPT ![i] = ReduceSum(st[i], st[j])]
    /\ seen' = [seen EXCEPT ![i] = seen[i] \o seen[j]]
    /\ last' = [Call("merge", i, "ok", NoValue) EXCEPT !.a = seen[i], !.b = seen[j]]
    /\ UNCHANGED <<cfg, data>>

Next ==
    \/ \E i \in Inst, rows \in RowSeqs : \E trows \in TargetRows(rows) :
          Update(i, rows, trows)
    \/ \E i \in Inst : Compute(i)
    \/ \E i \in Inst, rows \in RowSeqs : \E trows \in TargetRows(rows) :
          Forward(i, rows, trows)
    \/ \E i \in Inst : Reset(i)
    \/ \E i, j \in Inst : Merge(i, j)

Spec == Init /\ [][Next]_vars

\* ------------------------------------------------------------ construction
SquaredArgs == {PyBool(TRUE), PyBool(FALSE), PyInt(1), PyStr("yes"), PyNone}

NumOutputsArgs ==
    {PyInt(n) : n \in -1..MaxOutputs}
    \cup {PyTuple(<<2>>), PyTuple(<<2, 3>>), PyTuple(<<0>>), PyTuple(<<2, -1>>),
          PyTuple(<<>>), PyTupleNonInt(<<2>>), PyFloat(2), PyStr("3"), PyNone}

ReduceDimsArgs ==
    {PyStr("all"), PyStr("none"), PyInt(0), PyInt(-1), PyTuple(<<0, 1>>),
     PyTuple(<<>>), PyTupleNonInt(<<0>>), PyFloat(0), PyNone}

\* power, doubled: -0.5, 0, 0.5, 1, 1.5, 2, 3
PowerArgs == {-1, 0, 1, 2, 3, 4, 6}

NoFields == [f \in {} |-> NoValue]

InitCtor ==
    /\ cfg = NoCfg
    /\ data = [preds |-> Pattern(<<MaxRows>>, 1, 0, 0),
                target |-> Pattern(<<MaxRows>>, 0, 0, 0)]
    /\ st = [i \in Inst |-> NoFields]
    /\ seen = [i \in Inst |-> <<>>]
    /\ last = Call("new", 1, "ok", NoValue)

\* MeanSquaredError(squared, num_outputs, reduce_dims)
ConstructMSE(squared, num_outputs, reduce_dims) ==
    /\ last.op = "new"
    /\ LET outcome == MSE_validate(squared, num_outputs, reduce_dims)
           c       == MSE_config(squared, num_outputs, reduce_dims)
       IN  /\ cfg' = IF outcome = "ok" THEN c ELSE cfg
           /\ st' = IF outcome = "ok" THEN [i \in Inst |-> MSE_defaults(c)] ELSE st
           /\ last' = [Call("MeanSquaredError", 1, outcome, NoValue)
                          EXCEPT !.a = <<squared, num_outputs, reduce_dims>>]
    /\ UNCHANGED <<data, seen>>

\* TweedieDevianceScore(power)
ConstructTweedie(power2) ==
    /\ last.op = "new"
    /\ LET outcome == Tweedie_validate(power2)
           c       == Tweedie_config(power2)
       IN  /\ cfg' = IF outcome = "ok" THEN c ELSE cfg
           /\ st' = IF outcome = "ok" THEN [i \in Inst |-> Tweedie_defaults(c)] ELSE st
           /\ last' = [Call("TweedieDevianceScore", 1, outcome, NoValue)
                          EXCEPT !.a = <<PyFloat(power2)>>]
    /\ UNCHANGED <<data, seen>>

NextCtor ==
    \/ \E sq \in SquaredArgs, n \in NumOutputsArgs, rd \in ReduceDimsArgs :
          ConstructMSE(sq, n, rd)
    \/ \E p2 \in PowerArgs : ConstructTweedie(p2)

SpecCtor == InitCtor /\ [][NextCtor]_vars

\* ------------------------------------------------------ reference values
\* The state of a fresh instance after one update per batch, in order.
RECURSIVE ReplayFrom(_, _, _)
ReplayFrom(c, s, batches) ==
    IF batches = <<>> THEN s
    ELSE ReplayFrom(c,
                    MetricUpdate(c, s, TakeRows(data.preds, Head(batches)),
                                 TakeRows(data.target, Head(batches))).state,
                    Tail(batches))

Replay(c, batches) == ReplayFrom(c, Defaults(c), batches)

\* The functional layer called once on the concatenation of the batches.
OneShot(c, batches) ==
    LET preds  == TakeRows(data.preds, Flatten(batches))
        target == TakeRows(data.target, Flatten(batches))
    IN  IF c.kind = "mse"
        THEN LET r == mean_squared_error_update(preds, target, c.reduce_dimensions)
             IN  mean_squared_error_compute(r.sum, Scalar(r.n_obs), c.squared)
        ELSE LET r == tweedie_deviance_score_update(preds, target, c.power2)
             IN  tweedie_deviance_score_compute(r.sum, Scalar(r.n_obs))

\* Equality of a result with a reference value laid out over its slots.
SameValues(result, ref) ==
    /\ CanBroadcastTo(ref.shape, result.shape)
    /\ \A f \in 1..Len(result.data) :
          result.data[f] = BroadcastAt(ref, result.shape, f - 1)

\* reduce_dimensions covers the batch dimension (dimension 0)
ReducesBatchDim(c) ==
    c.reduce_dimensions.ty = "none" \/ 0 \in SeqToSet(c.reduce_dimensions.v)

\* C1 (as stated): after reset and one update per batch, compute() returns
\* what the functional layer returns for the concatenation of the batches,
\* whatever the configuration.
C1_EquivalenceAnyConfig ==
    (last.op = "compute" /\ seen[last.inst] # <<>>)
        => SameValues(last.value, OneShot(cfg, seen[last.inst]))

\* C1 (amended): the same, for configurations whose reduce_dims covers the
\* batch dimension; the result holds the functional value in every slot.
C1_Equivalence ==
    (last.op = "compute" /\ seen[last.inst] # <<>> /\ ReducesBatchDim(cfg))
        => SameValues(last.value, OneShot(cfg, seen[last.inst]))

C1_Witness ==
    /\ last.op = "compute"
    /\ Len(seen[last.inst]) = 2
    /\ seen[last.inst][1] # seen[last.inst][2]
    /\ cfg.kind = "mse"
    /\ ReducesBatchDim(cfg)
    /\ last.value.data[1].num > 0

\* C2: merging the state of two instances that observed the batches a and b
\* gives the state of one instance that observed a then b, and of one that
\* observed b then a, whichever of the two does the merging; compute() then
\* returns the same value for each.
C2_MergeAssocComm ==
    last.op = "merge" =>
        LET s == st[last.inst]
        IN  /\ s = Replay(cfg, last.a \o last.b)
            /\ s = Replay(cfg, last.b \o last.a)
            /\ s = ReduceSum(Replay(cfg, last.b), Replay(cfg, last.a))
            /\ MetricCompute(cfg, s) = MetricCompute(cfg, Replay(cfg, last.b \o last.a))

C2_Witness ==
    /\ last.op = "merge"
    /\ last.a # <<>> /\ last.b # <<>>
    /\ Replay(cfg, last.a) # Replay(cfg, last.b)
    /\ Replay(cfg, last.a) # Defaults(cfg)
    /\ Replay(cfg, last.b) # Defaults(cfg)

\* C3: compute() changes no state field and no configuration; a second
\* compute() right after returns the same result; and the result is that of
\* the updates alone, however many compute() calls came between them.
C3_ComputePure ==
    [][last'.op = "compute" =>
          /\ st' = st
          /\ cfg' = cfg
          /\ seen' = seen
          /\ (last.op = "compute" /\ last.inst = last'.inst) => last'.value = last.value
          /\ last'.value = MetricCompute(cfg, Replay(cfg, seen[last'.inst]))]_vars

C3_Witness ==
    /\ last.op = "compute"
    /\ Len(seen[last.inst]) = 2
    /\ st[last.inst] # Defaults(cfg)
    /\ last.value.data[1].den > 1

\* C5: an update or a one-shot call whose preds and target differ in shape
\* fails with the shape-mismatch error and leaves every state field as it was,
\* for both metrics.
C5_ShapeMismatch ==
    [][(/\ last'.op \in {"update", "forward"}
        /\ last'.preds.shape # last'.target.shape)
           => (last'.outcome = "ShapeMismatch" /\ st' = st /\ seen' = seen)]_vars

C5_Witness ==
    /\ last.op \in {"update", "forward"}
    /\ last.outcome = "ShapeMismatch"
    /\ st[last.inst] # Defaults(cfg)

\* The inputs outside the domain of the deviance, read off preds and target
\* separately.
OutsideDomain(preds, targets, power2) ==
    \/ power2 = 2 /\ (\/ \E k \in 1..Len(preds.data) : preds.data[k] <= 0
                      \/ \E k \in 1..Len(targets.data) : targets.data[k] < 0)
    \/ power2 = 4 /\ (\/ \E k \in 1..Len(preds.data) : preds.data[k] <= 0
                      \/ \E k \in 1..Len(targets.data) : targets.data[k] <= 0)

\* C6: with power 1 or 2, an update whose batch holds a value outside the
\* domain, in preds or in target, fails and leaves the deviance sum and the
\* count as they were.
C6_TweedieDomain ==
    [][(/\ cfg.kind = "tweedie"
        /\ last'.op \in {"update", "forward"}
        /\ last'.preds.shape = last'.target.shape
        /\ OutsideDomain(last'.preds, last'.target, cfg.power2))
           => (last'.outcome = "DomainViolation" /\ st' = st /\ seen' = seen)]_vars

\* a failed update on accumulated state, where only the target is at fault
C6_Witness ==
    /\ cfg.kind = "tweedie"
    /\ last.outcome = "DomainViolation"
    /\ \A k \in 1..Len(last.preds.data) : last.preds.data[k] > 0
    /\ \E k \in 1..Len(last.target.data) : last.target.data[k] > 0
    /\ st[last.inst].num_observations.data[1] > 0

\* The configuration domains, as the documentation states them.
SquaredInDomain(x) == x.ty = "bool"

NumOutputsInDomain(x) ==
    \/ x.ty = "int" /\ x.v[1] >= 1
    \/ x.ty = "tuple" /\ x.s = "" /\ \A k \in 1..Len(x.v) : x.v[k] >= 1

ReduceDimsInDomain(x) ==
    \/ x.ty = "str" /\ x.s = "all"
    \/ x.ty = "int"
    \/ x.ty = "tuple" /\ x.s = ""

AllZero(t) == \A k \in 1..Len(t.data) : t.data[k] = 0

\* C7: construction fails with the invalid-argument error exactly on the
\* configurations outside the domains, registering no state field; inside
\* them it succeeds with the state fields at zero.
C7_Construction ==
    /\ last.op = "MeanSquaredError" =>
          LET ok == /\ SquaredInDomain(last.a[1])
                    /\ NumOutputsInDomain(last.a[2])
                    /\ ReduceDimsInDomain(last.a[3])
          IN  /\ ~ok => /\ last.outcome = "InvalidArgument"
                        /\ cfg.kind = "none"
                        /\ \A i \in Inst : DOMAIN st[i] = {}
              /\ ok => /\ last.outcome = "ok"
                       /\ cfg.kind = "mse"
                       /\ \A i \in Inst :
                             /\ DOMAIN st[i] = {"sum_squared_error", "total"}
                             /\ st[i].sum_squared_error.shape =
                                   (IF last.a[2].ty = "int" THEN <<last.a[2].v[1]>>
                                    ELSE last.a[2].v)
                             /\ AllZero(st[i].sum_squared_error)
                             /\ st[i].total = Scalar(0)
    /\ last.op = "TweedieDevianceScore" =>
          /\ last.a[1].v[1] = 1 => /\ last.outcome = "InvalidArgument"
                                   /\ cfg.kind = "none"
                                   /\ \A i \in Inst : DOMAIN st[i] = {}
          /\ last.a[1].v[1] # 1 => /\ last.outcome = "ok"
                                   /\ \A i \in Inst :
                                         /\ st[i].sum_deviance_score = Scalar(0)
                                         /\ st[i].num_observations = Scalar(0)

C7_Witness ==
    /\ last.op = "MeanSquaredError"
    /\ last.outcome = "InvalidArgument"
    /\ SquaredInDomain(last.a[1])
    /\ ReduceDimsInDomain(last.a[3])
    /\ last.a[2] = PyInt(0)

\* Column j of the squared differences of the rows seen, averaged over them.
ColumnMeans(rows) ==
    LET k == data.preds.shape[2]
        Sq(r, j) == (data.preds.data[(r - 1) * k + j] - data.target.data[(r - 1) * k + j])
                    * (data.preds.data[(r - 1) * k + j] - data.target.data[(r - 1) * k + j])
    IN  Tensor(<<k>>,
               [j \in 1..k |-> Quot(SumSeq([n \in 1..Len(rows) |-> Sq(rows[n], j)]),
                                    Len(rows))])

\* C8: MeanSquaredError(num_outputs=k), all else default, updated with
\* batches of shape (n, k): compute() returns the k column means of the
\* squared differences.
C8_Multioutput ==
    (/\ cfg.kind = "mse"
     /\ cfg.squared
     /\ cfg.reduce_dimensions = PyNone
     /\ Len(data.preds.shape) = 2
     /\ cfg.output_size = PyInt(data.preds.shape[2])
     /\ last.op = "compute"
     /\ seen[last.inst] # <<>>)
        => last.value = ColumnMeans(Flatten(seen[last.inst]))

\* The state fields at their declared identity.
AtIdentity(c, s) ==
    IF c.kind = "mse"
    THEN /\ s.sum_squared_error.shape = <<c.output_size.v[1]>>
         /\ AllZero(s.sum_squared_error)
         /\ s.total = Scalar(0)
    ELSE /\ s.sum_deviance_score = Scalar(0)
         /\ s.num_observations = Scalar(0)

\* C9: reset() puts every state field of the instance at its identity, where
\* a freshly constructed instance has them, and leaves the configuration (and
\* the peer) alone; a later compute() returns the value of the batches
\* observed since; and the state fields change only through update (the
\* one-shot call included), reset and merge.
C9_Reset ==
    [][/\ last'.op = "reset" =>
             /\ AtIdentity(cfg, st'[last'.inst])
             /\ cfg' = cfg
             /\ \A j \in Inst \ {last'.inst} : st'[j] = st[j]
       /\ last'.op = "compute" =>
             last'.value = MetricCompute(cfg, Replay(cfg, seen[last'.inst]))
       /\ st' # st => last'.op \in {"update", "forward", "reset", "merge"}
       /\ last.op = "init" => \A i \in Inst : AtIdentity(cfg, st[i])]_vars

C9_Witness ==
    /\ last.op = "reset"
    /\ last.a # <<>>
    /\ Replay(cfg, last.a) # Defaults(cfg)
    /\ AtIdentity(cfg, st[last.inst])

\* C10: every update a MeanSquaredError accepts has num_outputs equal to the
\* product of the batch's sizes along the dimensions that are not reduced
\* (1 under "all"), and the running sum keeps the declared shape.
C10_OutputShape ==
    (/\ cfg.kind = "mse"
     /\ last.op \in {"update", "forward"}
     /\ last.outcome = "ok")
        => LET sh   == last.preds.shape
               dims == DimSet(cfg.reduce_dimensions, Len(sh))
               kept == {d \in 1..Len(sh) : (d - 1) \notin dims}
           IN  /\ cfg.output_size.v[1] = Prod([n \in 1..Len(SortedSeq(kept)) |->
                                                  sh[SortedSeq(kept)[n]]])
               /\ st[last.inst].sum_squared_error.shape = <<cfg.output_size.v[1]>>

====
